---------------------------- MODULE Spec2Model ----------------------------
(***************************************************************************)
(* terrain_flow: the terrain mesh (terrain.rs), the blue-noise point       *)
(* generator (point_gen.rs), the flow engine (flow.rs) and the default     *)
(* hydraulic flow strategy with its fork-join worker pool                  *)
(* (default_flow.rs).                                                      *)
(*                                                                         *)
(* Numbers.  The program computes in f64.  The model computes in exact     *)
(* rational arithmetic: an f64 is a record [n |-> numerator,               *)
(* d |-> denominator] in lowest terms with d > 0, and [n |-> 1, d |-> 0]   *)
(* stands for f64::MAX (only ever used as the start value of a minimum).   *)
(* Rounding of f64 operations is outside the model; the statements checked *)
(* here are the exact-arithmetic ones ("within floating tolerance").       *)
(* Cell indices are 0-based as in the program; a Vec is a sequence, whose  *)
(* element k of the program is element k + 1 of the sequence.              *)
(***************************************************************************)
EXTENDS Integers, Sequences, FiniteSets, Bags, TLC

VARIABLES
    \* ---- Terrain::generate / calculate_neighbors (terrain.rs)
    cells,            \* the Vec<Cell> under construction
    triangles,        \* triangulation.triangles, flat, three indices per triangle
    tri_i,            \* loop variable i of calculate_neighbors (0, 3, 6, ...)
    cell_vertex,      \* loop variable cell_vertex
    neighbor_vertex,  \* loop variable neighbor_vertex
    gen_pc,           \* "idle" | "loop" | "done"
    \* ---- Terrain::apply_deltas on its own (terrain.rs)
    ap_terrain,       \* the terrain before the deltas are applied
    ap_deltas,        \* the list of deltas
    ap_permuted,      \* the same deltas in another order
    ap_result,        \* the terrain after apply_deltas(ap_deltas), or None
    ap_result_perm,   \* the terrain after apply_deltas(ap_permuted), or None
    \* ---- PointGenerator (point_gen.rs)
    x_bounds,         \* Bounds
    y_bounds,         \* Bounds
    min_spacing,
    min_spacing_sq,
    point_queue,      \* Vec<Point>, the last element is the top
    kd_tree,          \* the points the proximity index holds
    init,             \* bool
    emitted,          \* history: the points next() has returned, in order
    last_ret,         \* history: what the last call of next() returned
    discarded,        \* history: the anchors popped for which no probe was accepted
    none_calls,       \* history: how many calls of next() have returned None
    \* ---- FlowEngine (flow.rs) with DefaultFlow::do_flow (default_flow.rs)
    terrain,          \* FlowEngine.terrain
    strategy,         \* FlowEngine.strategy, a DefaultFlow
    num_cpus,         \* num_cpus::get()
    time_delta,       \* the argument of the step under way
    main_pc,          \* where the thread that called step is
    feeder_pc,        \* "unspawned" | "send" | "done"
    feeder_next,      \* the cell_index the feeder sends next
    work_chan,        \* the messages in the work channel
    workers,          \* per worker: pc, cell_index, the deltas still to send
    result_chan,      \* the messages in the result channel
    collected,        \* the Vec the calling thread collects into
    steps,            \* history: the steps completed
    flow_calls,       \* history: the calls of strategy.flow
    snapshot,         \* history: the terrain when the step began
    handed,           \* history: per cell index, how often a worker received it
    computed          \* history: per cell index, the deltas a worker computed

genVars == <<cells, triangles, tri_i, cell_vertex, neighbor_vertex, gen_pc>>
apVars == <<ap_terrain, ap_deltas, ap_permuted, ap_result, ap_result_perm>>

pgVars == <<x_bounds, y_bounds, min_spacing, min_spacing_sq, point_queue,
            kd_tree, init, emitted, last_ret, discarded, none_calls>>

flowVars == <<terrain, strategy, num_cpus, time_delta, main_pc, feeder_pc,
              feeder_next, work_chan, workers, result_chan, collected, steps,
              flow_calls, snapshot, handed, computed>>

vars == <<genVars, apVars, pgVars, flowVars>>

-----------------------------------------------------------------------------
\* Option<T>
None == <<>>
Some(v) == <<v>>

\* Body of the value of v: LET with v evaluated once, however often Body
\* uses it
Let(v, Body(_)) == CHOOSE r \in { Body(x) : x \in {v} } : TRUE

-----------------------------------------------------------------------------
(* f64 as exact rationals *)

Abs(a) == IF a < 0 THEN -a ELSE a

RECURSIVE GCD(_, _)
GCD(a, b) == IF b = 0 THEN a ELSE GCD(b, a % b)

\* n / d in lowest terms, the denominator positive
Norm(n, d) ==
    Let(n, LAMBDA x : Let(d, LAMBDA y : Let(GCD(Abs(x), Abs(y)), LAMBDA g :
        IF x = 0 THEN [n |-> 0, d |-> 1]
        ELSE IF y < 0 THEN [n |-> (-x) \div g, d |-> (-y) \div g]
        ELSE [n |-> x \div g, d |-> y \div g])))

R(n) == [n |-> n, d |-> 1]
Frac(n, d) == Norm(n, d)

F64_MAX == [n |-> 1, d |-> 0]

Lcm(a, b) == (a \div GCD(a, b)) * b

RAdd(a, b) ==
    Let(a, LAMBDA x : Let(b, LAMBDA y : Let(Lcm(x.d, y.d), LAMBDA l :
        Norm(x.n * (l \div x.d) + y.n * (l \div y.d), l))))
RNeg(a) == Let(a, LAMBDA x : [n |-> -x.n, d |-> x.d])
RSub(a, b) == RAdd(a, RNeg(b))
RMul(a, b) ==
    Let(a, LAMBDA x : Let(b, LAMBDA y :
    Let(GCD(Abs(x.n), y.d), LAMBDA g1 : Let(GCD(Abs(y.n), x.d), LAMBDA g2 :
        IF x.n = 0 \/ y.n = 0 THEN R(0)
        ELSE [n |-> (x.n \div g1) * (y.n \div g2),
              d |-> (x.d \div g2) * (y.d \div g1)]))))
RInv(a) ==
    Let(a, LAMBDA x : IF x.n < 0 THEN [n |-> -x.d, d |-> -x.n]
                      ELSE [n |-> x.d, d |-> x.n])
RDiv(a, b) == RMul(a, RInv(b))
RLt(a, b) ==
    Let(a, LAMBDA x : Let(b, LAMBDA y :
        IF x.d = 0 THEN FALSE
        ELSE IF y.d = 0 THEN TRUE
        ELSE Let(Lcm(x.d, y.d), LAMBDA l :
                 x.n * (l \div x.d) < y.n * (l \div y.d))))
RGt(a, b) == RLt(b, a)
\* f64::min
RMin(a, b) == Let(a, LAMBDA x : Let(b, LAMBDA y : IF RLt(y, x) THEN y ELSE x))

-----------------------------------------------------------------------------
(* terrain.rs *)

Point(x, y) == [x |-> x, y |-> y]

\* f64::sqrt of a sum of squares.  A distance is kept by its square, which
\* determines it: [sq |-> n] is the non-negative root of n.
Sqrt(n) == [sq |-> n]

\* the root as a number, for meshes whose edge lengths are whole numbers
Root(dist) == R(CHOOSE r \in 0..dist.sq : r * r = dist.sq)

\* Cell::new
CellNew(location, height, depth) ==
    [location |-> location, height |-> height, depth |-> depth,
     neighbor_data |-> <<>>]

\* add_neighbor without the test for an index already listed
AddNeighborNoDedup(cell, index, neighbor_location) ==
    LET x_dist == cell.location.x - neighbor_location.x
        y_dist == cell.location.y - neighbor_location.y
        distance == Sqrt(x_dist * x_dist + y_dist * y_dist)
    IN  [cell EXCEPT !.neighbor_data =
            Append(@, [index |-> index, distance |-> distance])]

\* Cell::add_neighbor
AddNeighbor(cell, index, neighbor_location) ==
    IF \A k \in 1..Len(cell.neighbor_data) : cell.neighbor_data[k].index # index
    THEN LET x_dist == cell.location.x - neighbor_location.x
             y_dist == cell.location.y - neighbor_location.y
             distance == Sqrt(x_dist * x_dist + y_dist * y_dist)
         IN  [cell EXCEPT !.neighbor_data =
                 Append(@, [index |-> index, distance |-> distance])]
    ELSE cell

\* a loop body that adds a neighbor only from the earlier vertex position
\* of a triangle to the later one
NeighborStepForward(cs, tris, i, cv, nv) ==
    IF cv < nv
    THEN [cs EXCEPT ![tris[cv + i + 1]] =
             AddNeighbor(@, tris[nv + i + 1], cs[tris[nv + i + 1]].location)]
    ELSE cs

\* the body of the innermost loop of calculate_neighbors, for triangle
\* offset i and the vertex positions cv, nv
NeighborStep(cs, tris, i, cv, nv) ==
    IF cv # nv
    THEN LET cell_index == tris[cv + i + 1]
             neighbor_index == tris[nv + i + 1]
             neighbor_location == cs[neighbor_index].location
         IN  [cs EXCEPT ![cell_index] =
                 AddNeighbor(@, neighbor_index, neighbor_location)]
    ELSE cs

\* Terrain::calculate_neighbors from loop position (i, cv, nv) to the end
RECURSIVE NeighborsFrom(_, _, _, _, _)
NeighborsFrom(cs, tris, i, cv, nv) ==
    IF i >= Len(tris) THEN cs
    ELSE LET next == NeighborStep(cs, tris, i, cv, nv)
         IN  IF nv < 2 THEN NeighborsFrom(next, tris, i, cv, nv + 1)
             ELSE IF cv < 2 THEN NeighborsFrom(next, tris, i, cv + 1, 0)
             ELSE NeighborsFrom(next, tris, i + 3, 0, 0)

CalculateNeighbors(cs, tris) == NeighborsFrom(cs, tris, 0, 0, 0)

\* Terrain::generate: points is a sequence of Points, height_at and depth_at
\* are functions on Points, tris is what the triangulation returned
Generate(points, height_at, depth_at, tris) ==
    LET cs == [k \in 0..(Len(points) - 1) |->
                  CellNew(points[k + 1], height_at[points[k + 1]],
                          depth_at[points[k + 1]])]
    IN  CalculateNeighbors(cs, tris)

\* TerrainDelta::new
TerrainDeltaNew(cell_index) ==
    [cell_index |-> cell_index, height_delta |-> R(0), depth_delta |-> R(0)]

\* apply_delta with the depth clamped at zero
CellApplyDeltaClamped(cell, height_delta, level_delta) ==
    [cell EXCEPT !.height = RAdd(@, height_delta),
                 !.depth = IF RLt(RAdd(@, level_delta), R(0)) THEN R(0)
                           ELSE RAdd(@, level_delta)]

\* Cell::apply_delta
CellApplyDelta(cell, height_delta, level_delta) ==
    [cell EXCEPT !.height = RAdd(@, height_delta),
                 !.depth = RAdd(@, level_delta)]

\* Terrain::apply_delta; an index outside the cells panics
ApplyDelta(ter, delta) ==
    [ter EXCEPT ![delta.cell_index] =
        CellApplyDelta(@, delta.height_delta, delta.depth_delta)]

\* Terrain::apply_deltas
RECURSIVE ApplyDeltas(_, _)
ApplyDeltas(ter, deltas) ==
    IF deltas = <<>> THEN ter
    ELSE Let(ApplyDelta(ter, Head(deltas)), LAMBDA applied :
         Let(Tail(deltas), LAMBDA rest : ApplyDeltas(applied, rest)))

\* Terrain::cells_len
CellsLen(ter) == Cardinality(DOMAIN ter)

-----------------------------------------------------------------------------
(* default_flow.rs: the per-cell computation.  A HashMap<usize, T> is a
   function from its keys to its values. *)

\* DefaultFlow::new
DefaultFlowNew(flow_rate, flow_erosion_rate, erosion_threshold, erosion_rate, precipitation_rate, precipitation_amount) ==
    [flow_rate |-> flow_rate, flow_erosion_rate |-> flow_erosion_rate,
     erosion_threshold |-> erosion_threshold, erosion_rate |-> erosion_rate,
     precipitation_rate |-> precipitation_rate,
     precipitation_amount |-> precipitation_amount]

\* Terrain::get_cell
GetCell(ter, index) == ter[index]

\* a sink correction that takes the whole of a negative height
CalcSinkDeltasWhole(self, cell_index, cell) ==
    LET height_delta == IF RLt(cell.height, R(0))
                        THEN RNeg(cell.height) ELSE R(0)
        depth_delta == IF RGt(cell.depth, R(1))
                       THEN RMul(Frac(-1, 2), RSub(cell.depth, R(1))) ELSE R(0)
    IN  << [cell_index |-> cell_index, height_delta |-> height_delta,
            depth_delta |-> depth_delta] >>

\* DefaultFlow::calc_sink_deltas
CalcSinkDeltas(self, cell_index, cell) ==
    LET height_delta == IF RLt(cell.height, R(0))
                        THEN RMul(Frac(-1, 2), cell.height) ELSE R(0)
        depth_delta == IF RGt(cell.depth, R(1))
                       THEN RMul(Frac(-1, 2), RSub(cell.depth, R(1))) ELSE R(0)
    IN  << [cell_index |-> cell_index, height_delta |-> height_delta,
            depth_delta |-> depth_delta] >>

\* a flow weight whose available is the depth of the cell alone
CalcFlowWeightUncapped(self, cell, neighbor, distance) ==
    LET diff == RSub(RAdd(cell.height, cell.depth),
                     RAdd(neighbor.height, neighbor.depth))
        slope == RDiv(diff, distance)
    IN  IF RGt(slope, R(0))
        THEN Some([weight |-> RMul(RMul(slope, slope), slope),
                   available |-> cell.depth])
        ELSE None

\* DefaultFlow::calc_flow_weight
CalcFlowWeight(self, cell, neighbor, distance) ==
    LET diff == RSub(RAdd(cell.height, cell.depth),
                     RAdd(neighbor.height, neighbor.depth))
        slope == RDiv(diff, distance)
        available == RMin(cell.depth, RDiv(diff, R(2)))
    IN  IF RGt(slope, R(0))
        THEN Some([weight |-> RMul(RMul(slope, slope), slope),
                   available |-> available])
        ELSE None

\* an erosion weight that accepts a slope equal to the threshold
CalcErosionWeightInclusive(self, cell, neighbor, distance) ==
    LET diff == RSub(cell.height, neighbor.height)
        slope == RDiv(diff, distance)
        available == RDiv(diff, R(2))
    IN  IF ~RLt(slope, self.erosion_threshold)
        THEN Some([weight |-> slope, available |-> available])
        ELSE None

\* DefaultFlow::calc_erosion_weight
CalcErosionWeight(self, cell, neighbor, distance) ==
    LET diff == RSub(cell.height, neighbor.height)
        slope == RDiv(diff, distance)
        available == RDiv(diff, R(2))
    IN  IF RGt(slope, self.erosion_threshold)
        THEN Some([weight |-> slope, available |-> available])
        ELSE None

\* a precipitation that falls when the draw is above the rate
CalcPrecipitationAbove(self, draw) ==
    IF RGt(draw, self.precipitation_rate)
    THEN Some(self.precipitation_amount)
    ELSE None

\* DefaultFlow::calc_precipitation; draw is the random f64 of [0, 1)
CalcPrecipitation(self, draw) ==
    IF RLt(draw, self.precipitation_rate)
    THEN Some(self.precipitation_amount)
    ELSE None

\* calc_transfer_weights_with: the neighbors calc gives a weight, with it
CalcTransferWeightsWith(ter, cell, Calc(_, _, _)) ==
    LET nd == cell.neighbor_data
        Weight(k) == Calc(cell, GetCell(ter, nd[k].index), nd[k])
        kept == { k \in 1..Len(nd) : Weight(k) # None }
        keys == { nd[k].index : k \in kept }
    IN  [i \in keys |->
            Weight(CHOOSE k \in kept :
                      /\ nd[k].index = i
                      /\ \A m \in kept : nd[m].index = i => m <= k)[1]]

\* DefaultFlow::calc_flow_weights
CalcFlowWeights(self, ter, cell) ==
    LET Calc(c, neighbor, n_data) ==
            CalcFlowWeight(self, c, neighbor, Root(n_data.distance))
    IN  CalcTransferWeightsWith(ter, cell, Calc)

\* DefaultFlow::calc_erosion_weights
CalcErosionWeights(self, ter, cell) ==
    LET Calc(c, neighbor, n_data) ==
            CalcErosionWeight(self, c, neighbor, Root(n_data.distance))
    IN  CalcTransferWeightsWith(ter, cell, Calc)

\* aggregate_transfer_weights over the values of a map
RECURSIVE AggregateTransferWeights(_)
AggregateTransferWeights(weights) ==
    IF DOMAIN weights = {}
    THEN [weight |-> R(0), available |-> F64_MAX]
    ELSE LET k == CHOOSE k \in DOMAIN weights : TRUE
             acc == AggregateTransferWeights(
                        [i \in DOMAIN weights \ {k} |-> weights[i]])
             cur == weights[k]
         IN  [weight |-> RAdd(acc.weight, cur.weight),
              available |-> RMin(acc.available, cur.available)]

\* a sum that takes the first key only
SumOverFirst(keys, f) ==
    IF keys = {} THEN R(0) ELSE f[CHOOSE k \in keys : TRUE]

\* the sum of f over the keys
RECURSIVE SumOver(_, _)
SumOver(keys, f) ==
    IF keys = {} THEN R(0)
    ELSE LET k == CHOOSE k \in keys : TRUE
         IN  RAdd(f[k], SumOver(keys \ {k}, f))

\* the values calc_flow_deltas computes for one cell: the per-neighbor
\* transfers that are positive, the neighbor_deltas map and the self_delta
FlowParts(self, cell_index, cell, ter, draw) ==
    Let(CalcFlowWeights(self, ter, cell), LAMBDA flow_weights :
    Let(AggregateTransferWeights(flow_weights), LAMBDA flow_agg :
    Let(CalcErosionWeights(self, ter, cell), LAMBDA erosion_weights :
    Let(AggregateTransferWeights(erosion_weights), LAMBDA erosion_agg :
    Let([n \in DOMAIN flow_weights |->
            RMul(RMul(RDiv(flow_weights[n].weight, flow_agg.weight),
                      flow_agg.available), self.flow_rate)], LAMBDA flow_depth :
    Let([n \in DOMAIN flow_weights |->
            RMul(flow_depth[n], self.flow_erosion_rate)], LAMBDA flow_height :
    Let([n \in DOMAIN erosion_weights |->
            RMul(RMul(RDiv(erosion_weights[n].weight, erosion_agg.weight),
                      erosion_agg.available), self.erosion_rate)],
        LAMBDA erosion_height :
    Let({ n \in DOMAIN flow_weights : RGt(flow_depth[n], R(0)) },
        LAMBDA flow_keys :
    Let({ n \in DOMAIN erosion_weights : RGt(erosion_height[n], R(0)) },
        LAMBDA erosion_keys :
    Let(CalcPrecipitation(self, draw), LAMBDA precipitation :
    LET neighbor_deltas ==
            [n \in flow_keys \cup erosion_keys |->
                [cell_index |-> n,
                 height_delta |-> IF n \in erosion_keys
                                  THEN erosion_height[n] ELSE R(0),
                 depth_delta |-> IF n \in flow_keys
                                 THEN flow_depth[n] ELSE R(0)]]
        self_depth ==
            RAdd(RNeg(SumOver(flow_keys, flow_depth)),
                 IF precipitation # None THEN precipitation[1] ELSE R(0))
        self_height ==
            RSub(RNeg(SumOver(flow_keys, flow_height)),
                 SumOver(erosion_keys, erosion_height))
        self_delta ==
            IF flow_keys # {} \/ erosion_keys # {} \/ precipitation # None
            THEN Some([cell_index |-> cell_index, height_delta |-> self_height,
                       depth_delta |-> self_depth])
            ELSE None
    IN  [flow_depth |-> [n \in flow_keys |-> flow_depth[n]],
         erosion_height |-> [n \in erosion_keys |-> erosion_height[n]],
         neighbor_deltas |-> neighbor_deltas,
         self_delta |-> self_delta]))))))))))

\* the orders in which neighbor_deltas.drain() may yield a set of keys
DrainOrders(keys) ==
    Let(keys, LAMBDA ks : Let(Cardinality(ks), LAMBDA len :
        { order \in [1..len -> ks] :
              \A a, b \in 1..len : a # b => order[a] # order[b] }))

\* a calc_flow_deltas that returns the flow and the erosion of a neighbor as
\* two deltas
CalcFlowDeltasUnmerged(self, cell_index, cell, ter, draw, order) ==
    Let(FlowParts(self, cell_index, cell, ter, draw), LAMBDA parts :
        [j \in 1..(2 * Len(order)) |->
            IF j % 2 = 1
            THEN [parts.neighbor_deltas[order[(j + 1) \div 2]]
                      EXCEPT !.height_delta = R(0)]
            ELSE [parts.neighbor_deltas[order[(j + 1) \div 2]]
                      EXCEPT !.depth_delta = R(0)]]
            \o parts.self_delta)

\* DefaultFlow::calc_flow_deltas; draw is the random draw of
\* calc_precipitation, order the order the drain of neighbor_deltas yields
CalcFlowDeltas(self, cell_index, cell, ter, draw, order) ==
    Let(FlowParts(self, cell_index, cell, ter, draw), LAMBDA parts :
        [k \in 1..Len(order) |-> parts.neighbor_deltas[order[k]]]
            \o parts.self_delta)

-----------------------------------------------------------------------------
(* point_gen.rs.  Coordinates are whole numbers of a grid: the grid step
   plays the part of the f64 rounding step, so a candidate computed as
   anchor + min_spacing * (cos, sin) lands on the nearest grid point, at a
   distance from the anchor that is min_spacing up to rounding. *)

GEN_SEARCH_STEP_COUNT == 100

\* angles are counted in units of TAU / ANGLE_UNITS
ANGLE_UNITS == 2 * GEN_SEARCH_STEP_COUNT

\* 1000 * cos(TAU * k / 200) for k = 0..199, rounded
CosMilli ==
    <<
       1000, 1000, 998, 996, 992, 988, 982, 976, 969, 960,
       951, 941, 930, 918, 905, 891, 876, 861, 844, 827,
       809, 790, 771, 750, 729, 707, 685, 661, 637, 613,
       588, 562, 536, 509, 482, 454, 426, 397, 368, 339,
       309, 279, 249, 218, 187, 156, 125, 94, 63, 31,
       0, -31, -63, -94, -125, -156, -187, -218, -249, -279,
       -309, -339, -368, -397, -426, -454, -482, -509, -536, -562,
       -588, -613, -637, -661, -685, -707, -729, -750, -771, -790,
       -809, -827, -844, -861, -876, -891, -905, -918, -930, -941,
       -951, -960, -969, -976, -982, -988, -992, -996, -998, -1000,
       -1000, -1000, -998, -996, -992, -988, -982, -976, -969, -960,
       -951, -941, -930, -918, -905, -891, -876, -861, -844, -827,
       -809, -790, -771, -750, -729, -707, -685, -661, -637, -613,
       -588, -562, -536, -509, -482, -454, -426, -397, -368, -339,
       -309, -279, -249, -218, -187, -156, -125, -94, -63, -31,
       0, 31, 63, 94, 125, 156, 187, 218, 249, 279,
       309, 339, 368, 397, 426, 454, 482, 509, 536, 562,
       588, 613, 637, 661, 685, 707, 729, 750, 771, 790,
       809, 827, 844, 861, 876, 891, 905, 918, 930, 941,
       951, 960, 969, 976, 982, 988, 992, 996, 998, 1000
    >>

Cos(angle) == CosMilli[(angle % ANGLE_UNITS) + 1]
Sin(angle) == Cos(angle + 3 * (ANGLE_UNITS \div 4))

\* v / 1000 rounded to the nearest whole number, halves away from zero
RoundMilli(v) ==
    IF v >= 0 THEN (v + 500) \div 1000 ELSE -((-v + 500) \div 1000)

\* Bounds::new; it asserts min_inc < max_exc
BoundsNew(min_inc, max_exc) == [min_inc |-> min_inc, max_exc |-> max_exc]

\* Bounds::contains
Contains(bounds, val) == bounds.min_inc <= val /\ val < bounds.max_exc

\* PointGenerator::point_in_bounds
PointInBounds(point) == Contains(x_bounds, point.x) /\ Contains(y_bounds, point.y)

\* distance::squared_euclidean
SquaredEuclidean(a, b) == (a.x - b.x) * (a.x - b.x) + (a.y - b.y) * (a.y - b.y)

\* kd_tree.within(point, radius, squared_euclidean): the indexed points at
\* a distance of at most radius (the kdtree crate compares with <=)
Within(tree, point, radius) == { q \in tree : SquaredEuclidean(point, q) <= radius }

\* within called with min_spacing for min_spacing_sq
PointHasSpaceUnsquared(tree, point) == Within(tree, point, min_spacing) = {}

\* PointGenerator::point_has_space
PointHasSpace(tree, point) == Within(tree, point, min_spacing_sq) = {}

\* the candidate_point of gen_neighbor_point for a probed angle
CandidatePoint(anchor_point, angle) ==
    LET delta_x == RoundMilli(Cos(angle) * min_spacing)
        delta_y == RoundMilli(Sin(angle) * min_spacing)
    IN  Point(anchor_point.x + delta_x, anchor_point.y + delta_y)

\* the test of gen_neighbor_point on the candidate of an angle
ProbeAccepts(tree, anchor_point, angle) ==
    LET candidate_point == CandidatePoint(anchor_point, angle)
    IN  PointInBounds(candidate_point) /\ PointHasSpace(tree, candidate_point)

\* the angles (mod ANGLE_UNITS) whose candidate the test accepts; the test
\* reads only the anchor, the bounds and the index, so the loop below looks
\* its answers up here
AcceptedAngles(tree, anchor_point) ==
    { a \in 0..(ANGLE_UNITS - 1) : ProbeAccepts(tree, anchor_point, a) }

\* PointGenerator::gen_neighbor_point; base_angle (in angle units) and
\* step_dir (1 or -1) are the two random draws.  The while loop stops at
\* the first step_num whose candidate is accepted, or after
\* GEN_SEARCH_STEP_COUNT steps without one.
GenNeighborPoint(accepted, anchor_point, base_angle, step_dir) ==
    LET step_delta_angle == step_dir * (ANGLE_UNITS \div GEN_SEARCH_STEP_COUNT)
        AngleAt(step_num) ==
            (base_angle + step_delta_angle * step_num
                + ANGLE_UNITS * GEN_SEARCH_STEP_COUNT) % ANGLE_UNITS
        hits == { step_num \in 0..(GEN_SEARCH_STEP_COUNT - 1) :
                      AngleAt(step_num) \in accepted }
    IN  IF hits = {} THEN None
        ELSE LET first == CHOOSE n \in hits : \A m \in hits : n <= m
             IN  Some(CandidatePoint(anchor_point, AngleAt(first)))

\* the init point as the middle of the two bounds
InitPointCentered ==
    Point((x_bounds.max_exc + x_bounds.min_inc) \div 2,
          (y_bounds.max_exc + y_bounds.min_inc) \div 2)

\* the init_point of gen_init_point
InitPoint ==
    Point((x_bounds.max_exc - x_bounds.min_inc) \div 2,
          (y_bounds.max_exc - y_bounds.min_inc) \div 2)

\* one pass of the while loop of gen_next_point that requeues the anchor
\* whether or not a neighbor was found
GenNextIterRequeue(queue, tree, accepted, base_angle, step_dir) ==
    LET anchor_point == queue[Len(queue)]
        popped == SubSeq(queue, 1, Len(queue) - 1)
        neighbor == GenNeighborPoint(accepted, anchor_point, base_angle, step_dir)
    IN  IF neighbor # None
        THEN [queue |-> popped \o <<anchor_point, neighbor[1]>>,
              tree |-> tree \cup {neighbor[1]},
              point |-> neighbor]
        ELSE [queue |-> popped \o <<anchor_point>>, tree |-> tree, point |-> None]

\* one pass of the while loop of gen_next_point, the queue not empty
GenNextIter(queue, tree, accepted, base_angle, step_dir) ==
    LET anchor_point == queue[Len(queue)]
        popped == SubSeq(queue, 1, Len(queue) - 1)
        neighbor == GenNeighborPoint(accepted, anchor_point, base_angle, step_dir)
    IN  IF neighbor # None
        THEN [queue |-> popped \o <<anchor_point, neighbor[1]>>,
              tree |-> tree \cup {neighbor[1]},
              point |-> neighbor]
        ELSE [queue |-> popped, tree |-> tree, point |-> None]

-----------------------------------------------------------------------------
(* Building a terrain: Terrain::generate with the triangulation as an input *)

MaxTriangles == 2

\* height_at and depth_at, two functions of the location
GenHeightAt == [p \in [x : 0..4, y : 0..4] |-> R(p.x + 2 * p.y)]
GenDepthAt == [p \in [x : 0..4, y : 0..4] |-> R(0)]

\* the point sequences meshes are built from: the corners of the unit
\* square, and of a 3 x 4 rectangle
GenPointSeqs ==
    { << Point(0, 0), Point(1, 0), Point(1, 1), Point(0, 1) >>,
      << Point(0, 0), Point(3, 0), Point(0, 4), Point(3, 4) >> }

\* a triangle is three distinct vertex indices
Triangles(n) ==
    { t \in [1..3 -> 0..(n - 1)] : t[1] # t[2] /\ t[1] # t[3] /\ t[2] # t[3] }

RECURSIVE Flatten(_)
Flatten(ts) == IF ts = <<>> THEN <<>> ELSE Head(ts) \o Flatten(Tail(ts))

TriangleLists(n) ==
    UNION { { Flatten(ts) : ts \in [1..m -> Triangles(n)] } : m \in 1..MaxTriangles }

FlowIdle ==
    /\ terrain = <<>>
    /\ strategy = <<>>
    /\ num_cpus = 0
    /\ time_delta = R(0)
    /\ main_pc = "idle"
    /\ feeder_pc = "unspawned"
    /\ feeder_next = 0
    /\ work_chan = <<>>
    /\ workers = <<>>
    /\ result_chan = <<>>
    /\ collected = <<>>
    /\ steps = 0
    /\ flow_calls = 0
    /\ snapshot = <<>>
    /\ handed = <<>>
    /\ computed = <<>>

PgIdle ==
    /\ x_bounds = <<>>
    /\ y_bounds = <<>>
    /\ min_spacing = 0
    /\ min_spacing_sq = 0
    /\ point_queue = <<>>
    /\ kd_tree = {}
    /\ init = FALSE
    /\ emitted = <<>>
    /\ last_ret = <<"not called">>
    /\ discarded = {}
    /\ none_calls = 0

ApIdle ==
    /\ ap_terrain = <<>>
    /\ ap_deltas = <<>>
    /\ ap_permuted = <<>>
    /\ ap_result = None
    /\ ap_result_perm = None

GenIdle ==
    /\ cells = <<>>
    /\ triangles = <<>>
    /\ tri_i = 0
    /\ cell_vertex = 0
    /\ neighbor_vertex = 0
    /\ gen_pc = "idle"

\* Terrain::generate up to the call of calculate_neighbors and the
\* triangulation's answer
GenInit ==
    \E points \in GenPointSeqs :
        /\ cells = [k \in 0..(Len(points) - 1) |->
                       CellNew(points[k + 1], GenHeightAt[points[k + 1]],
                               GenDepthAt[points[k + 1]])]
        /\ triangles \in TriangleLists(Len(points))
        /\ tri_i = 0
        /\ cell_vertex = 0
        /\ neighbor_vertex = 0
        /\ gen_pc = "loop"

\* one pass through the innermost loop body of calculate_neighbors
NeighborIter ==
    /\ gen_pc = "loop"
    /\ tri_i < Len(triangles)
    /\ cells' = NeighborStep(cells, triangles, tri_i, cell_vertex, neighbor_vertex)
    /\ IF neighbor_vertex < 2
       THEN /\ neighbor_vertex' = neighbor_vertex + 1
            /\ UNCHANGED <<cell_vertex, tri_i>>
       ELSE IF cell_vertex < 2
       THEN /\ neighbor_vertex' = 0
            /\ cell_vertex' = cell_vertex + 1
            /\ UNCHANGED tri_i
       ELSE /\ neighbor_vertex' = 0
            /\ cell_vertex' = 0
            /\ tri_i' = tri_i + 3
    /\ UNCHANGED <<triangles, gen_pc>>
    /\ UNCHANGED <<apVars, pgVars, flowVars>>

\* the loop over the triangles ends; generate returns Terrain { cells }
GenReturn ==
    /\ gen_pc = "loop"
    /\ tri_i >= Len(triangles)
    /\ gen_pc' = "done"
    /\ UNCHANGED <<cells, triangles, tri_i, cell_vertex, neighbor_vertex>>
    /\ UNCHANGED <<apVars, pgVars, flowVars>>

InitGen == GenInit /\ ApIdle /\ PgIdle /\ FlowIdle

NextGen == NeighborIter \/ GenReturn

SpecGen == InitGen /\ [][NextGen]_vars

NeighborData(c) == { c.neighbor_data[k] : k \in 1..Len(c.neighbor_data) }

(* C6: in every terrain Terrain::generate has built, a cell i that lists j
   as a neighbor with distance d is listed by j with the same distance d, no
   neighbor list holds the same index twice, and no cell lists itself. *)
C6_GraphSymmetric ==
    gen_pc = "done" =>
        \A i \in DOMAIN cells :
            LET nd == cells[i].neighbor_data
            IN  /\ \A k \in 1..Len(nd) :
                      /\ nd[k].index # i
                      /\ nd[k].index \in DOMAIN cells
                      /\ [index |-> i, distance |-> nd[k].distance]
                             \in NeighborData(cells[nd[k].index])
                /\ \A k, m \in 1..Len(nd) : k # m => nd[k].index # nd[m].index

\* a finished mesh of two triangles that share an edge: the shared edge was
\* offered twice to both of its cells, and some cell has three neighbors
C6_Witness ==
    /\ gen_pc = "done"
    /\ Len(triangles) = 6
    /\ \E a, b \in DOMAIN cells :
          /\ a # b
          /\ {a, b} \subseteq {triangles[1], triangles[2], triangles[3]}
          /\ {a, b} \subseteq {triangles[4], triangles[5], triangles[6]}
    /\ \E i \in DOMAIN cells : Len(cells[i].neighbor_data) = 3

\* the neighbor indices of a cell
NeighborIndices(c) == { c.neighbor_data[k].index : k \in 1..Len(c.neighbor_data) }

\* the neighbor edges of a mesh, each as the set of its two cell indices
Edges(cs) == UNION { { {i, n} : n \in NeighborIndices(cs[i]) } : i \in DOMAIN cs }

\* the two vertices the two triangles of the list share, when the list is
\* two triangles
SharedVertices(tris) ==
    {tris[1], tris[2], tris[3]} \cap {tris[4], tris[5], tris[6]}

\* generate has returned the mesh of the corners of the unit square, from a
\* triangulation into two triangles along one diagonal
SquareMesh ==
    /\ gen_pc = "done"
    /\ DOMAIN cells = 0..3
    /\ cells[2].location = Point(1, 1)
    /\ Len(triangles) = 6
    /\ {triangles[k] : k \in 1..6} = 0..3
    /\ SharedVertices(triangles) \in { {0, 2}, {1, 3} }

\* C13 as the claim has it: the mesh of the unit square's corners, in two
\* triangles, has 4 distinct neighbor edges and each of its four cells has
\* 3 neighbors, the two adjacent corners at distance 1 and the diagonal
\* partner at distance sqrt(2).
C13_SquareOriginal ==
    SquareMesh =>
        /\ Cardinality(Edges(cells)) = 4
        /\ \A i \in DOMAIN cells :
              /\ Len(cells[i].neighbor_data) = 3
              /\ NeighborData(cells[i]) =
                    { [index |-> (i + 1) % 4, distance |-> Sqrt(1)],
                      [index |-> (i + 3) % 4, distance |-> Sqrt(1)],
                      [index |-> (i + 2) % 4, distance |-> Sqrt(2)] }

\* C13, amended: the mesh of the unit square's corners, in two triangles,
\* has 5 distinct neighbor edges, the four sides and the diagonal the
\* triangles share; the two cells of that diagonal have 3 neighbors, the two
\* adjacent corners at distance 1 and the diagonal partner at distance
\* sqrt(2); the other two cells have 2 neighbors, their adjacent corners at
\* distance 1; every edge is listed by both its cells with the same distance.
C13_SquareMesh ==
    SquareMesh =>
        /\ Cardinality(Edges(cells)) = 5
        /\ Edges(cells) = { {i, (i + 1) % 4} : i \in 0..3 }
                             \cup { SharedVertices(triangles) }
        /\ \A i \in DOMAIN cells :
              /\ Len(cells[i].neighbor_data) = Cardinality(NeighborData(cells[i]))
              /\ NeighborData(cells[i]) =
                    { [index |-> (i + 1) % 4, distance |-> Sqrt(1)],
                      [index |-> (i + 3) % 4, distance |-> Sqrt(1)] }
                    \cup (IF i \in SharedVertices(triangles)
                          THEN { [index |-> (i + 2) % 4, distance |-> Sqrt(2)] }
                          ELSE {})
              /\ \A nd \in NeighborData(cells[i]) :
                    [index |-> i, distance |-> nd.distance]
                        \in NeighborData(cells[nd.index])

\* the unit square's mesh is finished: a cell of the shared diagonal has
\* three neighbors and a cell off it has two
C13_Witness ==
    /\ SquareMesh
    /\ \E i, j \in DOMAIN cells :
          /\ Len(cells[i].neighbor_data) = 3
          /\ Len(cells[j].neighbor_data) = 2
          /\ j \notin SharedVertices(triangles)

-----------------------------------------------------------------------------
(* Terrain::apply_deltas as a function of the terrain and the delta list *)

MaxDeltas == 3

\* a terrain of two cells that are each other's neighbor
ApPoints == << Point(0, 0), Point(3, 4) >>
ApTerrains ==
    { [k \in 0..1 |->
          [location |-> ApPoints[k + 1], height |-> h[k], depth |-> R(k),
           neighbor_data |-> << [index |-> 1 - k, distance |-> Sqrt(25)] >>]]
      : h \in [0..1 -> {R(0), Frac(-1, 2)}] }

ApDeltaValues ==
    [cell_index : 0..1, height_delta : {R(1), Frac(-1, 2)},
     depth_delta : {R(-2), R(1)}]

ApDeltaLists == UNION { [1..m -> ApDeltaValues] : m \in 1..MaxDeltas }

ApInit ==
    /\ ap_terrain \in ApTerrains
    /\ ap_deltas \in ApDeltaLists
    /\ ap_permuted = <<>>
    /\ ap_result = None
    /\ ap_result_perm = None

\* apply_deltas(&deltas)
ApplyInOrder ==
    /\ ap_result = None
    /\ ap_result' = Some(ApplyDeltas(ap_terrain, ap_deltas))
    /\ UNCHANGED <<ap_terrain, ap_deltas, ap_permuted, ap_result_perm>>
    /\ UNCHANGED <<genVars, pgVars, flowVars>>

\* apply_deltas on a permutation of the same list, from the same terrain
ApplyPermuted ==
    /\ ap_result_perm = None
    /\ \E perm \in Permutations(1..Len(ap_deltas)) :
          /\ ap_permuted' = [k \in 1..Len(ap_deltas) |-> ap_deltas[perm[k]]]
          /\ ap_result_perm' = Some(ApplyDeltas(ap_terrain, ap_permuted'))
    /\ UNCHANGED <<ap_terrain, ap_deltas, ap_result>>
    /\ UNCHANGED <<genVars, pgVars, flowVars>>

InitApply == ApInit /\ GenIdle /\ PgIdle /\ FlowIdle

NextApply == ApplyInOrder \/ ApplyPermuted

SpecApply == InitApply /\ [][NextApply]_vars

(* C5: Terrain::apply_deltas is order independent: from the same terrain,
   a list of deltas and any permutation of it leave every cell with the
   same height and the same depth. *)
C5_OrderIndependent ==
    (ap_result # None /\ ap_result_perm # None) =>
        \A i \in DOMAIN ap_terrain :
            /\ ap_result[1][i].height = ap_result_perm[1][i].height
            /\ ap_result[1][i].depth = ap_result_perm[1][i].depth

\* both orders were applied, the orders differ, and two deltas of the list
\* target the same cell
C5_Witness ==
    /\ ap_result # None
    /\ ap_result_perm # None
    /\ ap_permuted # ap_deltas
    /\ \E k, m \in 1..Len(ap_deltas) :
          /\ k # m
          /\ ap_deltas[k].cell_index = ap_deltas[m].cell_index
          /\ ap_deltas[k] # ap_deltas[m]
    /\ ap_result[1] # ap_terrain

-----------------------------------------------------------------------------
(* The PointGenerator as an iterator: calls of next() *)

MaxNoneCalls == 2

\* the bounds and spacings a generator is made with (PointGenerator::new)
PgBounds == { BoundsNew(0, 10), BoundsNew(6, 14) }
PgSpacings == { 5 }
\* the random base angles drawn, in angle units (of either parity, in
\* every quadrant)
BaseAngles == { 0, 25, 51, 76, 100, 126, 151, 177 }

PgInit ==
    /\ x_bounds \in PgBounds
    /\ y_bounds \in PgBounds
    /\ min_spacing \in PgSpacings
    /\ min_spacing_sq = min_spacing * min_spacing
    /\ point_queue = <<>>
    /\ kd_tree = {}
    /\ init = FALSE
    /\ emitted = <<>>
    /\ last_ret = <<"not called">>
    /\ discarded = {}
    /\ none_calls = 0

\* next() when init is false: gen_init_point
GenInitPoint ==
    /\ ~init
    /\ init' = TRUE
    /\ point_queue' = Append(point_queue, InitPoint)
    /\ kd_tree' = kd_tree \cup {InitPoint}
    /\ emitted' = Append(emitted, InitPoint)
    /\ last_ret' = Some(InitPoint)
    /\ UNCHANGED <<x_bounds, y_bounds, min_spacing, min_spacing_sq, discarded, none_calls>>
    /\ UNCHANGED <<genVars, apVars, flowVars>>

\* next() when init is true, one pass of the loop of gen_next_point: an
\* anchor is popped; with a neighbor found the call returns it, without one
\* the loop goes on
PopAnchor ==
    /\ init
    /\ point_queue # <<>>
    /\ \E accepted \in {AcceptedAngles(kd_tree, point_queue[Len(point_queue)])} :
       \E base_angle \in BaseAngles, step_dir \in {1, -1} :
          LET r == GenNextIter(point_queue, kd_tree, accepted, base_angle, step_dir)
          IN  /\ point_queue' = r.queue
              /\ kd_tree' = r.tree
              /\ IF r.point # None
                 THEN /\ emitted' = Append(emitted, r.point[1])
                      /\ last_ret' = r.point
                      /\ UNCHANGED discarded
                 ELSE /\ discarded' = discarded \cup {point_queue[Len(point_queue)]}
                      /\ UNCHANGED <<emitted, last_ret>>
    /\ UNCHANGED <<x_bounds, y_bounds, min_spacing, min_spacing_sq, init, none_calls>>
    /\ UNCHANGED <<genVars, apVars, flowVars>>

\* next() when init is true and the queue is empty (or has run empty in
\* this call): gen_next_point returns None
ReturnNone ==
    /\ init
    /\ point_queue = <<>>
    /\ none_calls < MaxNoneCalls
    /\ last_ret' = None
    /\ none_calls' = none_calls + 1
    /\ UNCHANGED <<x_bounds, y_bounds, min_spacing, min_spacing_sq, point_queue,
                   kd_tree, init, emitted, discarded>>
    /\ UNCHANGED <<genVars, apVars, flowVars>>

InitPoints == PgInit /\ GenIdle /\ ApIdle /\ FlowIdle

\* PointGenerator::next_point
NextPoints == GenInitPoint \/ PopAnchor \/ ReturnNone

SpecPoints == InitPoints /\ [][NextPoints]_vars

\* next() is called again and again (run.rs hands the generator to
\* write_points, whose for loop runs until None)
SpecPointsFair == SpecPoints /\ WF_vars(NextPoints)

Range(seq) == { seq[k] : k \in 1..Len(seq) }
(* C7: at every point of the generator's run, any two of the points
   emitted so far are at a distance of at least min_spacing (their squared
   distance is at least min_spacing_sq), and every emitted point is in the
   proximity index before the next candidate is tested. *)
C7_Spacing ==
    /\ \A i, j \in 1..Len(emitted) :
          i < j => SquaredEuclidean(emitted[i], emitted[j]) >= min_spacing_sq
    /\ Range(emitted) = kd_tree

\* several points were emitted and an anchor ran out of room: every probe
\* around it was turned down
C7_Witness ==
    /\ Len(emitted) >= 4
    /\ discarded # {}
    /\ \E i, j \in 1..Len(emitted) :
          i < j /\ SquaredEuclidean(emitted[i], emitted[j]) < 2 * min_spacing_sq

(* C8 (as claimed): every point emitted, the first one included, lies
   within both bounds. *)
C8_AllInBounds == \A k \in 1..Len(emitted) : PointInBounds(emitted[k])

(* C9 (as claimed): the first point emitted is the center of the bounding
   rectangle, ((x.min_inc + x.max_exc) / 2, (y.min_inc + y.max_exc) / 2),
   and it is in the queue and in the index when it is emitted. *)
C9_FirstIsCenter ==
    Len(emitted) >= 1 =>
        /\ emitted[1] = InitPointCentered
        /\ Len(emitted) = 1 /\ discarded = {} =>
              emitted[1] \in Range(point_queue) /\ emitted[1] \in kd_tree

(* C10: the sequence ends by saturation: eventually the queue is empty and
   next() returns None, from then on for good; an anchor popped without an
   accepted probe is never in the queue again; and once next() has returned
   None, every later call returns None and emits nothing. *)
C10_Saturation ==
    /\ <>[](init /\ point_queue = <<>> /\ last_ret = None)
    /\ [](discarded \cap Range(point_queue) = {})
    /\ [][last_ret = None => (last_ret' = None /\ emitted' = emitted)]_vars

\* next() has returned None twice, after several points and after anchors
\* were dropped
C10_Witness ==
    /\ last_ret = None
    /\ none_calls = 2
    /\ Len(emitted) >= 3
    /\ Range(emitted) \subseteq discarded

-----------------------------------------------------------------------------
(* The engine: FlowEngine::step with DefaultFlow::do_flow as its strategy.
   do_flow runs a feeder thread, num_cpus worker threads and the calling
   thread, which collects; every channel operation is one step. *)

MaxWorkers == 2
MaxSteps == 1

\* channel::bounded(1), the work channel and the result channel
WORK_CAPACITY == 1
RESULT_CAPACITY == 1

\* the mesh of the engine: a triangle with sides 3, 4 and 5
FlowPoints == << Point(0, 0), Point(3, 0), Point(0, 4) >>
FlowTriangles == << 0, 1, 2 >>

\* height_at and depth_at: the heights and depths of the three points
FlowProfiles ==
    { [height |-> << R(0), R(1), R(0) >>, depth |-> << R(0), R(3), R(0) >>],
      [height |-> << R(0), R(0), R(0) >>, depth |-> << R(0), R(0), R(0) >>] }

ProfileAt(values) == [p \in Range(FlowPoints) |->
    values[CHOOSE k \in 1..Len(FlowPoints) : FlowPoints[k] = p]]

FlowTerrains ==
    { Generate(FlowPoints, ProfileAt(pr.height), ProfileAt(pr.depth), FlowTriangles)
        : pr \in FlowProfiles }

\* the strategies the engine is made with
FlowStrategies ==
    { DefaultFlowNew(Frac(1, 2), R(1), Frac(1, 5), Frac(1, 2), Frac(1, 4), R(1)) }

\* the random draws of calc_precipitation, and the arguments of step
PrecipitationDraws == { R(0), Frac(1, 2) }
TimeDeltas == { R(1), Frac(1, 2) }

Workers == 1..num_cpus

WorkerIdle == [pc |-> "unspawned", cell_index |-> 0, pending |-> <<>>]

\* FlowEngine::new
FlowInit ==
    /\ terrain \in FlowTerrains
    /\ strategy \in FlowStrategies
    /\ num_cpus \in 1..MaxWorkers
    /\ time_delta = R(0)
    /\ main_pc = "idle"
    /\ feeder_pc = "unspawned"
    /\ feeder_next = 0
    /\ work_chan = <<>>
    /\ workers = [w \in 1..num_cpus |-> WorkerIdle]
    /\ result_chan = <<>>
    /\ collected = <<>>
    /\ steps = 0
    /\ flow_calls = 0
    /\ snapshot = terrain
    /\ handed = [i \in DOMAIN terrain |-> 0]
    /\ computed = [i \in DOMAIN terrain |-> <<>>]

\* a scaling that leaves depth_delta as it is
ScaleDeltaHeightOnly(delta, td) ==
    [delta EXCEPT !.height_delta = RMul(@, td)]

\* the scaling loop of FlowEngine::step on one delta
ScaleDelta(delta, td) ==
    [delta EXCEPT !.height_delta = RMul(@, td), !.depth_delta = RMul(@, td)]

\* the scaling loop of FlowEngine::step
ScaleDeltas(deltas, td) == [k \in 1..Len(deltas) |-> ScaleDelta(deltas[k], td)]

\* a main thread that keeps its tx_result while it collects
MainKeepsTxResult ==
    main_pc \in {"spawn_feeder", "spawn_workers", "drop_tx", "collect"}

\* the main thread still holds its own tx_result
MainHoldsTxResult == main_pc \in {"spawn_feeder", "spawn_workers", "drop_tx"}

\* every Sender of the result channel is dropped
ResultDisconnected ==
    /\ ~MainHoldsTxResult
    /\ \A w \in Workers : workers[w].pc = "done"

\* tx_work, the only Sender of the work channel, is dropped
WorkDisconnected == feeder_pc = "done"

\* a feeder that stops one index early
WorkIndicesShort(ter) == 0..(CellsLen(ter) - 2)

\* the cell indices the feeder sends
WorkIndices(ter) == 0..(CellsLen(ter) - 1)

\* what self.calc_flow_deltas(cell_index, terrain.get_cell(cell_index),
\* terrain) can return: one list for every random draw of calc_precipitation
\* and every order in which neighbor_deltas.drain() yields
FlowDeltaChoices(self, ter, cell_index) ==
    UNION { { CalcFlowDeltas(self, cell_index, GetCell(ter, cell_index), ter,
                             draw, order) :
                order \in DrainOrders(DOMAIN
                    FlowParts(self, cell_index, GetCell(ter, cell_index), ter,
                              draw).neighbor_deltas) }
            : draw \in PrecipitationDraws }

\* FlowDeltaChoices of the terrains and strategies an engine is made with,
\* computed once
InitialFlowDeltas ==
    [ter \in FlowTerrains |-> [self \in FlowStrategies |->
        [cell_index \in DOMAIN ter |-> FlowDeltaChoices(self, ter, cell_index)]]]

\* FlowDeltaChoices of the terrain the workers read, looked up where it is
\* computed already
WorkerFlowDeltas(cell_index) ==
    IF terrain \in FlowTerrains /\ strategy \in FlowStrategies
    THEN InitialFlowDeltas[terrain][strategy][cell_index]
    ELSE FlowDeltaChoices(strategy, terrain, cell_index)

\* FlowEngine::step is called: strategy.flow(&self.terrain) begins and
\* do_flow makes its two channels
StepCall ==
    /\ main_pc = "idle"
    /\ steps < MaxSteps
    /\ time_delta' \in TimeDeltas
    /\ main_pc' = "spawn_feeder"
    /\ flow_calls' = flow_calls + 1
    /\ snapshot' = terrain
    /\ work_chan' = <<>>
    /\ result_chan' = <<>>
    /\ collected' = <<>>
    /\ feeder_pc' = "unspawned"
    /\ feeder_next' = 0
    /\ workers' = [w \in Workers |-> WorkerIdle]
    /\ handed' = [i \in DOMAIN terrain |-> 0]
    /\ computed' = [i \in DOMAIN terrain |-> <<>>]
    /\ UNCHANGED <<terrain, strategy, num_cpus, steps>>
    /\ UNCHANGED <<genVars, apVars, pgVars>>

\* s.spawn of the feeder
SpawnFeeder ==
    /\ main_pc = "spawn_feeder"
    /\ feeder_pc' = "send"
    /\ main_pc' = "spawn_workers"
    /\ UNCHANGED <<terrain, strategy, num_cpus, time_delta, feeder_next, work_chan,
                   workers, result_chan, collected, steps, flow_calls, snapshot,
                   handed, computed>>
    /\ UNCHANGED <<genVars, apVars, pgVars>>

\* one pass of the loop that spawns the workers
SpawnWorker ==
    /\ main_pc = "spawn_workers"
    /\ \E w \in Workers :
          /\ workers[w].pc = "unspawned"
          /\ \A v \in Workers : v < w => workers[v].pc # "unspawned"
          /\ workers' = [workers EXCEPT ![w].pc = "recv"]
          /\ main_pc' = IF w = num_cpus THEN "drop_tx" ELSE "spawn_workers"
    /\ UNCHANGED <<terrain, strategy, num_cpus, time_delta, feeder_pc, feeder_next,
                   work_chan, result_chan, collected, steps, flow_calls, snapshot,
                   handed, computed>>
    /\ UNCHANGED <<genVars, apVars, pgVars>>

\* drop(tx_result)
DropTxResult ==
    /\ main_pc = "drop_tx"
    /\ main_pc' = "collect"
    /\ UNCHANGED <<terrain, strategy, num_cpus, time_delta, feeder_pc, feeder_next,
                   work_chan, workers, result_chan, collected, steps, flow_calls,
                   snapshot, handed, computed>>
    /\ UNCHANGED <<genVars, apVars, pgVars>>

\* a collect that applies each delta to the terrain as it is received
CollectApplying ==
    /\ main_pc = "collect"
    /\ result_chan # <<>>
    /\ collected' = Append(collected, Head(result_chan))
    /\ result_chan' = Tail(result_chan)
    /\ terrain' = ApplyDelta(terrain, Head(result_chan))
    /\ UNCHANGED <<strategy, num_cpus, time_delta, main_pc, feeder_pc,
                   feeder_next, work_chan, workers, steps, flow_calls, snapshot,
                   handed, computed>>
    /\ UNCHANGED <<genVars, apVars, pgVars>>

\* rx_result.iter().collect(): one delta is received
Collect ==
    /\ main_pc = "collect"
    /\ result_chan # <<>>
    /\ collected' = Append(collected, Head(result_chan))
    /\ result_chan' = Tail(result_chan)
    /\ UNCHANGED <<terrain, strategy, num_cpus, time_delta, main_pc, feeder_pc,
                   feeder_next, work_chan, workers, steps, flow_calls, snapshot,
                   handed, computed>>
    /\ UNCHANGED <<genVars, apVars, pgVars>>

\* rx_result.iter() ends: the channel is empty and disconnected
CollectEnd ==
    /\ main_pc = "collect"
    /\ result_chan = <<>>
    /\ ResultDisconnected
    /\ main_pc' = "join"
    /\ UNCHANGED <<terrain, strategy, num_cpus, time_delta, feeder_pc, feeder_next,
                   work_chan, workers, result_chan, collected, steps, flow_calls,
                   snapshot, handed, computed>>
    /\ UNCHANGED <<genVars, apVars, pgVars>>

\* crossbeam::scope joins the threads it spawned; do_flow and flow return
ScopeJoin ==
    /\ main_pc = "join"
    /\ feeder_pc = "done"
    /\ \A w \in Workers : workers[w].pc = "done"
    /\ main_pc' = "returned"
    /\ UNCHANGED <<terrain, strategy, num_cpus, time_delta, feeder_pc, feeder_next,
                   work_chan, workers, result_chan, collected, steps, flow_calls,
                   snapshot, handed, computed>>
    /\ UNCHANGED <<genVars, apVars, pgVars>>

\* the rest of FlowEngine::step: the deltas are scaled and applied
StepApply ==
    /\ main_pc = "returned"
    /\ terrain' = ApplyDeltas(terrain, ScaleDeltas(collected, time_delta))
    /\ main_pc' = "idle"
    /\ steps' = steps + 1
    /\ UNCHANGED <<strategy, num_cpus, time_delta, feeder_pc, feeder_next, work_chan,
                   workers, result_chan, collected, flow_calls, snapshot, handed,
                   computed>>
    /\ UNCHANGED <<genVars, apVars, pgVars>>

\* the feeder: tx_work.send(cell_index)
FeederSend ==
    /\ feeder_pc = "send"
    /\ feeder_next \in WorkIndices(terrain)
    /\ Len(work_chan) < WORK_CAPACITY
    /\ work_chan' = Append(work_chan, feeder_next)
    /\ feeder_next' = feeder_next + 1
    /\ UNCHANGED <<terrain, strategy, num_cpus, time_delta, main_pc, feeder_pc,
                   workers, result_chan, collected, steps, flow_calls, snapshot,
                   handed, computed>>
    /\ UNCHANGED <<genVars, apVars, pgVars>>

\* the feeder: the loop is over, drop(tx_work)
FeederDone ==
    /\ feeder_pc = "send"
    /\ feeder_next \notin WorkIndices(terrain)
    /\ feeder_pc' = "done"
    /\ UNCHANGED <<terrain, strategy, num_cpus, time_delta, main_pc, feeder_next,
                   work_chan, workers, result_chan, collected, steps, flow_calls,
                   snapshot, handed, computed>>
    /\ UNCHANGED <<genVars, apVars, pgVars>>

\* a worker: rx.iter() yields a cell index and calc_flow_deltas runs
WorkerRecv(w) ==
    /\ workers[w].pc = "recv"
    /\ work_chan # <<>>
    /\ LET cell_index == Head(work_chan)
       IN  \E deltas \in WorkerFlowDeltas(cell_index) :
              /\ workers' = [workers EXCEPT ![w] =
                     [pc |-> "flow", cell_index |-> cell_index,
                      pending |-> deltas]]
              /\ handed' = [handed EXCEPT ![cell_index] = @ + 1]
              /\ computed' = [computed EXCEPT ![cell_index] = @ \o deltas]
    /\ work_chan' = Tail(work_chan)
    /\ UNCHANGED <<terrain, strategy, num_cpus, time_delta, main_pc, feeder_pc,
                   feeder_next, result_chan, collected, steps, flow_calls, snapshot>>
    /\ UNCHANGED <<genVars, apVars, pgVars>>

\* a worker: tx.send(delta) in either of its two loops; after the last sink
\* delta the worker is back at rx.iter()
WorkerSend(w) ==
    /\ workers[w].pc \in {"flow", "sink"}
    /\ workers[w].pending # <<>>
    /\ Len(result_chan) < RESULT_CAPACITY
    /\ result_chan' = Append(result_chan, Head(workers[w].pending))
    /\ workers' = [workers EXCEPT
          ![w].pending = Tail(@),
          ![w].pc = IF @ = "sink" /\ Len(workers[w].pending) = 1 THEN "recv" ELSE @]
    /\ UNCHANGED <<terrain, strategy, num_cpus, time_delta, main_pc, feeder_pc,
                   feeder_next, work_chan, collected, steps, flow_calls, snapshot,
                   handed, computed>>
    /\ UNCHANGED <<genVars, apVars, pgVars>>

\* a worker: the flow deltas are sent and calc_sink_deltas runs
WorkerSink(w) ==
    /\ workers[w].pc = "flow"
    /\ workers[w].pending = <<>>
    /\ LET cell_index == workers[w].cell_index
       IN  \E deltas \in { CalcSinkDeltas(strategy, cell_index,
                                          GetCell(terrain, cell_index)) } :
           /\ workers' = [workers EXCEPT ![w].pc = "sink", ![w].pending = deltas]
           /\ computed' = [computed EXCEPT ![cell_index] = @ \o deltas]
    /\ UNCHANGED <<terrain, strategy, num_cpus, time_delta, main_pc, feeder_pc,
                   feeder_next, work_chan, result_chan, collected, steps, flow_calls,
                   snapshot, handed>>
    /\ UNCHANGED <<genVars, apVars, pgVars>>

\* a worker: rx.iter() ends (the work channel is empty and disconnected);
\* the closure returns and drops its tx and rx
WorkerExit(w) ==
    /\ workers[w].pc = "recv"
    /\ work_chan = <<>>
    /\ WorkDisconnected
    /\ workers' = [workers EXCEPT ![w].pc = "done"]
    /\ UNCHANGED <<terrain, strategy, num_cpus, time_delta, main_pc, feeder_pc,
                   feeder_next, work_chan, result_chan, collected, steps, flow_calls,
                   snapshot, handed, computed>>
    /\ UNCHANGED <<genVars, apVars, pgVars>>

Main == SpawnFeeder \/ SpawnWorker \/ DropTxResult \/ Collect \/ CollectEnd
            \/ ScopeJoin \/ StepApply
Feeder == FeederSend \/ FeederDone
Worker(w) == WorkerRecv(w) \/ WorkerSend(w) \/ WorkerSink(w) \/ WorkerExit(w)

Init == FlowInit /\ GenIdle /\ ApIdle /\ PgIdle

Next ==
    \/ StepCall
    \/ SpawnFeeder \/ SpawnWorker \/ DropTxResult \/ Collect \/ CollectEnd
    \/ ScopeJoin \/ StepApply
    \/ FeederSend \/ FeederDone
    \/ \E w \in Workers :
          WorkerRecv(w) \/ WorkerSend(w) \/ WorkerSink(w) \/ WorkerExit(w)

Spec == Init /\ [][Next]_vars

\* every thread that can take a step is scheduled in the end
SpecFair ==
    /\ Spec
    /\ WF_vars(Main)
    /\ WF_vars(Feeder)
    /\ \A w \in 1..MaxWorkers : WF_vars(w \in Workers /\ Worker(w))

\* the sum of the height_delta (depth_delta) of the deltas that target cell i
RECURSIVE SumHeightDelta(_, _)
SumHeightDelta(deltas, i) ==
    IF deltas = <<>> THEN R(0)
    ELSE RAdd(IF Head(deltas).cell_index = i THEN Head(deltas).height_delta ELSE R(0),
              SumHeightDelta(Tail(deltas), i))

RECURSIVE SumDepthDelta(_, _)
SumDepthDelta(deltas, i) ==
    IF deltas = <<>> THEN R(0)
    ELSE RAdd(IF Head(deltas).cell_index = i THEN Head(deltas).depth_delta ELSE R(0),
              SumDepthDelta(Tail(deltas), i))

Targeted(deltas, i) == \E k \in 1..Len(deltas) : deltas[k].cell_index = i

\* the step of the engine that ends a call of FlowEngine::step
StepEnds == main_pc = "returned" /\ main_pc' = "idle"

\* do_flow is running or has returned and its deltas are not applied yet
InStep == main_pc # "idle"

\* C1: FlowEngine::step calls the strategy once; afterwards every cell's
\* height is its height before the step plus time_delta times the sum of
\* the height_delta of the returned deltas that target it, its depth
\* likewise; a cell no delta targets keeps both, and the number of cells,
\* the locations and the neighbor lists stay as they were.
C1_StepContract ==
    /\ [][StepEnds =>
            /\ DOMAIN terrain' = DOMAIN terrain
            /\ CellsLen(terrain') = CellsLen(terrain)
            /\ flow_calls = steps + 1
            /\ \A i \in DOMAIN terrain :
                  /\ terrain'[i].height =
                        RAdd(terrain[i].height,
                             RMul(time_delta, SumHeightDelta(collected, i)))
                  /\ terrain'[i].depth =
                        RAdd(terrain[i].depth,
                             RMul(time_delta, SumDepthDelta(collected, i)))
                  /\ ~Targeted(collected, i) =>
                        /\ terrain'[i].height = terrain[i].height
                        /\ terrain'[i].depth = terrain[i].depth
                  /\ terrain'[i].location = terrain[i].location
                  /\ terrain'[i].neighbor_data = terrain[i].neighbor_data]_vars
    /\ [](flow_calls = IF InStep THEN steps + 1 ELSE steps)

\* a step with time_delta 1/2 is over; some cell was the target of three
\* deltas or more and its height and its depth have both changed
C1_Witness ==
    /\ main_pc = "idle"
    /\ steps = 1
    /\ time_delta = Frac(1, 2)
    /\ \E i \in DOMAIN terrain :
          /\ Cardinality({ k \in 1..Len(collected) : collected[k].cell_index = i }) >= 3
          /\ terrain[i].height # snapshot[i].height
          /\ terrain[i].depth # snapshot[i].depth
          /\ terrain[i].depth =
                RAdd(snapshot[i].depth, RMul(time_delta, SumDepthDelta(collected, i)))

\* the lists of deltas calc_flow_deltas and calc_sink_deltas can make for
\* cell i of ter: the flow deltas, then the sink deltas
PossibleDeltas(self, ter, i) ==
    UNION { { CalcFlowDeltas(self, i, GetCell(ter, i), ter, draw, order)
                  \o CalcSinkDeltas(self, i, GetCell(ter, i)) :
                order \in DrainOrders(DOMAIN
                    FlowParts(self, i, GetCell(ter, i), ter, draw).neighbor_deltas) }
            : draw \in PrecipitationDraws }

\* PossibleDeltas of the terrains and strategies an engine is made with
InitialDeltas ==
    [ter \in FlowTerrains |-> [self \in FlowStrategies |->
        [i \in DOMAIN ter |-> PossibleDeltas(self, ter, i)]]]

\* the lists of deltas a worker can make for cell i from the terrain the
\* step began with
DeltasOfCell(i) ==
    IF snapshot \in FlowTerrains /\ strategy \in FlowStrategies
    THEN InitialDeltas[snapshot][strategy][i]
    ELSE PossibleDeltas(strategy, snapshot, i)

IsPrefix(s, t) == Len(s) <= Len(t) /\ \A k \in 1..Len(s) : s[k] = t[k]

\* C2: between the start of flow and its return no height and no depth is
\* written, whatever the interleaving: every delta is computed from the
\* terrain the step began with, and the terrain changes only when the
\* engine applies the collected list.
C2_NoWriteDuringFlow ==
    /\ [](InStep => terrain = snapshot)
    /\ [][terrain' # terrain => StepEnds]_vars
    /\ [](InStep => \A i \in DOMAIN terrain :
              \E full \in DeltasOfCell(i) : IsPrefix(computed[i], full))

\* both workers have computed deltas and the collector has received some
\* of them while a worker is still computing
C2_Witness ==
    /\ main_pc = "collect"
    /\ num_cpus = 2
    /\ Len(collected) >= 2
    /\ \E w \in Workers : workers[w].pc = "flow"
    /\ \E i \in DOMAIN terrain : computed[i] = <<>>
    /\ \E i \in DOMAIN terrain : Len(computed[i]) >= 3

\* the bag of the elements of a sequence
BagOfSeq(s) ==
    [e \in Range(s) |-> Cardinality({ k \in 1..Len(s) : s[k] = e })]

RECURSIVE ConcatAll(_, _)
ConcatAll(f, keys) ==
    IF keys = {} THEN <<>>
    ELSE LET k == CHOOSE k \in keys : \A m \in keys : k <= m
         IN  f[k] \o ConcatAll(f, keys \ {k})

\* the deltas the workers hold and have not sent yet
RECURSIVE PendingAll(_)
PendingAll(ws) ==
    IF ws = {} THEN <<>>
    ELSE LET w == CHOOSE w \in ws : TRUE
         IN  workers[w].pending \o PendingAll(ws \ {w})

\* C3: do_flow hands every index of 0..n-1 to one worker, once, and what
\* it returns is the multiset union over the cells of the cell's flow
\* deltas and sink deltas: nothing a worker sent is lost or doubled and
\* nothing is returned that no worker made.
C3_ExactlyOnce ==
    /\ \A i \in DOMAIN terrain : handed[i] <= 1
    /\ \A i \in DOMAIN terrain :
          handed[i] = IF i < feeder_next /\ i \notin Range(work_chan) THEN 1 ELSE 0
    /\ Cardinality({ w \in Workers : workers[w].pc \in {"flow", "sink"} }) <=
          Cardinality({ i \in DOMAIN terrain : handed[i] = 1 })
    /\ BagOfSeq(collected \o result_chan \o PendingAll(Workers))
          = BagOfSeq(ConcatAll(computed, DOMAIN terrain))
    /\ main_pc = "returned" =>
          /\ \A i \in DOMAIN terrain : handed[i] = 1
          /\ \A i \in DOMAIN terrain : computed[i] \in DeltasOfCell(i)
          /\ BagOfSeq(collected) = BagOfSeq(ConcatAll(computed, DOMAIN terrain))

\* do_flow has returned with two workers; the deltas of the cells came
\* back interleaved, not cell by cell
C3_Witness ==
    /\ main_pc = "returned"
    /\ num_cpus = 2
    /\ Len(collected) >= 7
    /\ \E a, b, c \in 1..Len(collected) :
          /\ a < b /\ b < c
          /\ collected[a].cell_index = collected[c].cell_index
          /\ collected[b].cell_index # collected[a].cell_index
          /\ collected[a] \in Range(computed[0])
          /\ collected[b] \in Range(computed[1])

\* C4: under fair scheduling every call of do_flow returns; the feeder
\* closes the work queue after the last index, a worker ends only when the
\* work queue is empty and closed, the result queue is closed once the
\* workers and the main thread have dropped their senders, and the
\* collector finishes only after every worker has finished sending.
C4_Returns ==
    /\ (main_pc = "spawn_feeder") ~> (main_pc = "returned")
    /\ [](feeder_pc = "done" => feeder_next = CellsLen(terrain))
    /\ (feeder_pc = "done" /\ InStep) ~> (\A w \in Workers : workers[w].pc = "done")
    /\ [](\A w \in Workers : workers[w].pc = "done" =>
              /\ work_chan = <<>>
              /\ feeder_pc = "done"
              /\ workers[w].pending = <<>>)
    /\ (main_pc = "spawn_feeder") ~> (InStep /\ ResultDisconnected)
    /\ [](InStep /\ ResultDisconnected => main_pc \in {"collect", "join", "returned"})
    /\ [](main_pc \in {"join", "returned"} =>
              /\ \A w \in Workers : workers[w].pc = "done"
              /\ result_chan = <<>>)

\* a worker waits with a delta in its hand for room in the full result
\* channel, the work channel is full too, and the collector has begun
C4_Witness ==
    /\ main_pc = "collect"
    /\ Len(result_chan) = RESULT_CAPACITY
    /\ Len(work_chan) = WORK_CAPACITY
    /\ \A w \in Workers : workers[w].pc \in {"flow", "sink"} /\ workers[w].pending # <<>>
    /\ num_cpus = 2

-----------------------------------------------------------------------------
(* The engine over several steps, with do_flow taken cell by cell in index
   order on the calling thread: the list do_flow returns is the same multiset
   under every interleaving of its threads, and apply_deltas does not depend
   on the order of the list.  The terrains and strategies are chosen for the
   cases of the per-cell computation: a slope at the erosion threshold and
   above it, one and two downhill neighbors, negative heights, a
   precipitation_rate of 1. *)

MaxSeqSteps == 2

\* height_at and depth_at: the heights and depths of the three points
SeqProfiles ==
    { [height |-> << R(6), R(0), R(-2) >>, depth |-> << R(3), R(3), R(3) >>],
      [height |-> << R(0), R(0), R(0) >>, depth |-> << R(0), R(0), R(0) >>],
      [height |-> << R(-2), R(-2), R(-2) >>, depth |-> << R(0), R(0), R(0) >>],
      [height |-> << Frac(5, 2), Frac(11, 2), R(0) >>,
       depth |-> << R(0), R(0), Frac(11, 2) >>],
      [height |-> << R(0), R(0), R(0) >>, depth |-> << R(2), R(0), R(2) >>] }

SeqTerrains ==
    { Generate(FlowPoints, ProfileAt(pr.height), ProfileAt(pr.depth), FlowTriangles)
        : pr \in SeqProfiles }

\* the strategies: the first has the erosion threshold at 1, the second at 2
\* with a flow_rate of 1 and a precipitation_rate of 1
SeqStrategies ==
    { DefaultFlowNew(Frac(1, 2), R(1), R(1), Frac(1, 2), Frac(1, 4), R(1)),
      DefaultFlowNew(R(1), Frac(1, 2), R(2), R(1), R(1), Frac(1, 2)) }

\* the arguments of step
SeqTimeDeltas == { R(1), R(2), R(3) }

\* FlowEngine::new
SeqInit ==
    /\ terrain \in SeqTerrains
    /\ strategy \in SeqStrategies
    /\ num_cpus = 1
    /\ time_delta = R(0)
    /\ main_pc = "idle"
    /\ feeder_pc = "unspawned"
    /\ feeder_next = 0
    /\ work_chan = <<>>
    /\ workers = [w \in 1..1 |-> WorkerIdle]
    /\ result_chan = <<>>
    /\ collected = <<>>
    /\ steps = 0
    /\ flow_calls = 0
    /\ snapshot = terrain
    /\ handed = [i \in DOMAIN terrain |-> 0]
    /\ computed = [i \in DOMAIN terrain |-> <<>>]

\* FlowEngine::step is called and strategy.flow(&self.terrain) begins
SeqStepCall ==
    /\ main_pc = "idle"
    /\ steps < MaxSeqSteps
    /\ time_delta' \in SeqTimeDeltas
    /\ main_pc' = "flow"
    /\ flow_calls' = flow_calls + 1
    /\ snapshot' = terrain
    /\ collected' = <<>>
    /\ feeder_next' = 0
    /\ handed' = [i \in DOMAIN terrain |-> 0]
    /\ computed' = [i \in DOMAIN terrain |-> <<>>]
    /\ UNCHANGED <<terrain, strategy, num_cpus, steps, feeder_pc, work_chan,
                   workers, result_chan>>
    /\ UNCHANGED <<genVars, apVars, pgVars>>

\* the next cell index is handed out: calc_flow_deltas and calc_sink_deltas
\* run for it and their deltas reach the list do_flow returns
SeqFlowCell ==
    /\ main_pc = "flow"
    /\ feeder_next \in WorkIndices(terrain)
    /\ \E flow_deltas \in FlowDeltaChoices(strategy, terrain, feeder_next) :
       \E sink_deltas \in { CalcSinkDeltas(strategy, feeder_next,
                                           GetCell(terrain, feeder_next)) } :
          /\ computed' = [computed EXCEPT ![feeder_next] = flow_deltas \o sink_deltas]
          /\ collected' = collected \o flow_deltas \o sink_deltas
    /\ handed' = [handed EXCEPT ![feeder_next] = @ + 1]
    /\ feeder_next' = feeder_next + 1
    /\ UNCHANGED <<terrain, strategy, num_cpus, time_delta, main_pc, feeder_pc,
                   work_chan, workers, result_chan, steps, flow_calls, snapshot>>
    /\ UNCHANGED <<genVars, apVars, pgVars>>

\* flow returns and the rest of FlowEngine::step runs: the deltas are scaled
\* and applied
SeqStepApply ==
    /\ main_pc = "flow"
    /\ feeder_next \notin WorkIndices(terrain)
    /\ terrain' = ApplyDeltas(terrain, ScaleDeltas(collected, time_delta))
    /\ main_pc' = "idle"
    /\ steps' = steps + 1
    /\ UNCHANGED <<strategy, num_cpus, time_delta, feeder_pc, feeder_next, work_chan,
                   workers, result_chan, collected, flow_calls, snapshot, handed,
                   computed>>
    /\ UNCHANGED <<genVars, apVars, pgVars>>

InitSeq == SeqInit /\ GenIdle /\ ApIdle /\ PgIdle

NextSeq == SeqStepCall \/ SeqFlowCell \/ SeqStepApply

SpecSeq == InitSeq /\ [][NextSeq]_vars

-----------------------------------------------------------------------------
(* The deltas of one cell.  computed[i] holds what calc_flow_deltas returned
   for cell i, then the one delta of calc_sink_deltas. *)

\* the deltas calc_flow_deltas returned for cell i
FlowDeltasOf(i) == SubSeq(computed[i], 1, Len(computed[i]) - 1)

\* the places in deltas of the deltas that target cell i
PlacesOf(deltas, i) == { k \in 1..Len(deltas) : deltas[k].cell_index = i }

\* the sum of the depth_delta of the deltas that target another cell than i
RECURSIVE SumDepthToOthers(_, _)
SumDepthToOthers(deltas, i) ==
    IF deltas = <<>> THEN R(0)
    ELSE RAdd(IF Head(deltas).cell_index # i THEN Head(deltas).depth_delta ELSE R(0),
              SumDepthToOthers(Tail(deltas), i))

\* the depth calc_precipitation can add to a self delta
PrecipitationOutcomes ==
    { IF CalcPrecipitation(strategy, draw) = None THEN R(0)
      ELSE CalcPrecipitation(strategy, draw)[1] : draw \in PrecipitationDraws }

\* cell i has been computed in the step under way
Computed(i) == main_pc = "flow" /\ computed[i] # <<>>

\* C11: in the deltas calc_flow_deltas makes for one cell, the depth the
\* flow pass takes from the cell equals the sum of the depth gains in its
\* neighbors' deltas: the self delta's depth_delta is the precipitation minus
\* that sum, no gain is negative, and without a self delta there is no gain;
\* with one gaining neighbor its gain is the loss of the cell.
C11_DepthConserved ==
    \A i \in DOMAIN computed : Computed(i) =>
        LET fl == FlowDeltasOf(i)
            gains == SumDepthToOthers(fl, i)
            selfs == PlacesOf(fl, i)
        IN  /\ \A k \in 1..Len(fl) : ~RLt(fl[k].depth_delta, R(0)) \/ k \in selfs
            /\ selfs = {} => gains = R(0)
            /\ \A k \in selfs :
                   \E p \in PrecipitationOutcomes :
                       RSub(p, fl[k].depth_delta) = gains
            /\ \A k \in selfs : \A m \in 1..Len(fl) :
                   /\ PlacesOf(fl, fl[m].cell_index) = {m}
                   /\ { j \in 1..Len(fl) : j \notin selfs
                            /\ RGt(fl[j].depth_delta, R(0)) } = {m}
                   => \E p \in PrecipitationOutcomes :
                          fl[m].depth_delta = RSub(p, fl[k].depth_delta)

\* a cell whose flow went to two neighbors in unequal parts, and a cell whose
\* flow went to one neighbor
C11_Witness ==
    /\ \E i \in DOMAIN computed : Computed(i) /\
          \E a, b \in 1..Len(FlowDeltasOf(i)) :
              /\ FlowDeltasOf(i)[a].cell_index # i
              /\ FlowDeltasOf(i)[b].cell_index # i
              /\ RGt(FlowDeltasOf(i)[a].depth_delta, FlowDeltasOf(i)[b].depth_delta)
              /\ RGt(FlowDeltasOf(i)[b].depth_delta, R(0))
    /\ \E i \in DOMAIN computed : Computed(i) /\
          \E a \in 1..Len(FlowDeltasOf(i)) :
              /\ FlowDeltasOf(i)[a].cell_index # i
              /\ RGt(FlowDeltasOf(i)[a].depth_delta, R(0))
              /\ Cardinality(PlacesOf(FlowDeltasOf(i), i)) = 1
              /\ Len(FlowDeltasOf(i)) = 2

-----------------------------------------------------------------------------
(* The sink correction over steps *)

\* the delta calc_sink_deltas returned for cell i
SinkDeltaOf(i) == computed[i][Len(computed[i])]

\* a step has ended: snapshot is the terrain it began with, collected the
\* deltas it applied, time_delta its argument
AfterStep == main_pc = "idle" /\ steps > 0

\* cell i had a negative height when the step began and the sink delta was
\* the only delta that targeted it
SinkOnly(i) ==
    /\ RLt(snapshot[i].height, R(0))
    /\ Cardinality(PlacesOf(collected, i)) = 1

\* a cell whose height is not negative gets a sink delta with height_delta 0
ZeroCorrection ==
    \A i \in DOMAIN computed :
        Computed(i) /\ ~RLt(terrain[i].height, R(0))
            => SinkDeltaOf(i).height_delta = R(0)

\* C12 as stated: for a cell with negative height that receives no other
\* deltas, every step halves the distance of its height to 0 and the height
\* never becomes greater than 0; a cell with height >= 0 gets a zero height
\* correction.
C12_SinkOriginal ==
    /\ AfterStep =>
           \A i \in DOMAIN terrain : SinkOnly(i) =>
               /\ terrain[i].height = RDiv(snapshot[i].height, R(2))
               /\ ~RGt(terrain[i].height, R(0))
    /\ ZeroCorrection

\* C12, amended: for a cell with negative height that receives no other
\* deltas, a step multiplies the height by 1 - time_delta / 2; with
\* time_delta = 1 it halves the distance of the height to 0, and the height
\* stays at or below 0 exactly when time_delta <= 2; a cell with
\* height >= 0 gets a zero height correction.
C12_SinkDamping ==
    /\ AfterStep =>
           \A i \in DOMAIN terrain : SinkOnly(i) =>
               /\ terrain[i].height =
                      RMul(snapshot[i].height,
                           RSub(R(1), RDiv(time_delta, R(2))))
               /\ time_delta = R(1) =>
                      /\ terrain[i].height = RDiv(snapshot[i].height, R(2))
                      /\ RLt(terrain[i].height, R(0))
               /\ RGt(terrain[i].height, R(0)) <=> RGt(time_delta, R(2))
    /\ ZeroCorrection

\* a height of -2 that two steps of time_delta 1 took to -1 and then to -1/2
C12_Witness ==
    /\ AfterStep /\ steps = 2 /\ time_delta = R(1)
    /\ \E i \in DOMAIN terrain :
          /\ SinkOnly(i)
          /\ snapshot[i].height = R(-1)
          /\ terrain[i].height = Frac(-1, 2)

-----------------------------------------------------------------------------
(* The erosion threshold *)

\* the height slope from cell i to the neighbor its neighbor_data nd names
HeightSlope(i, nd) ==
    RDiv(RSub(terrain[i].height, terrain[nd.index].height), Root(nd.distance))

\* the neighbor_data of cell i as a set
NeighborDataOf(i) ==
    { terrain[i].neighbor_data[k] : k \in 1..Len(terrain[i].neighbor_data) }

\* the neighbors of cell i whose height slope is above the erosion threshold
AboveThreshold(i) ==
    { nd \in NeighborDataOf(i) : RGt(HeightSlope(i, nd), strategy.erosion_threshold) }

\* the sum of the height slopes of a set of neighbor_data of cell i
RECURSIVE SumSlopes(_, _)
SumSlopes(i, nds) ==
    IF nds = {} THEN R(0)
    ELSE LET nd == CHOOSE nd \in nds : TRUE
         IN  RAdd(HeightSlope(i, nd), SumSlopes(i, nds \ {nd}))

\* the least half height differential of a set of neighbor_data of cell i
RECURSIVE MinHalfDiff(_, _)
MinHalfDiff(i, nds) ==
    IF nds = {} THEN F64_MAX
    ELSE LET nd == CHOOSE nd \in nds : TRUE
         IN  RMin(MinHalfDiff(i, nds \ {nd}),
                  RDiv(RSub(terrain[i].height, terrain[nd.index].height), R(2)))

\* C14: a neighbor whose height slope equals erosion_threshold (or is below
\* it) receives no height in the deltas of the cell; a neighbor whose slope is
\* above the threshold receives the height that weight = slope and
\* available = diff / 2 give: its slope over the sum of the accepted slopes,
\* times the least accepted diff / 2, times erosion_rate.
C14_StrictThreshold ==
    \A i \in DOMAIN computed : Computed(i) =>
        \A nd \in NeighborDataOf(i) :
            LET fl == FlowDeltasOf(i)
                got == { fl[k].height_delta : k \in PlacesOf(fl, nd.index) }
            IN  IF nd \in AboveThreshold(i)
                THEN got = { RMul(RMul(RDiv(HeightSlope(i, nd),
                                            SumSlopes(i, AboveThreshold(i))),
                                       MinHalfDiff(i, AboveThreshold(i))),
                                  strategy.erosion_rate) }
                ELSE got \subseteq { R(0) }

\* a cell with one neighbor at a slope equal to the threshold, which gets no
\* height, and one at a slope above it, which gets some
C14_Witness ==
    \E i \in DOMAIN computed : Computed(i) /\
        \E a, b \in NeighborDataOf(i) :
            /\ HeightSlope(i, a) = strategy.erosion_threshold
            /\ \A k \in PlacesOf(FlowDeltasOf(i), a.index) :
                   FlowDeltasOf(i)[k].height_delta = R(0)
            /\ RGt(HeightSlope(i, b), strategy.erosion_threshold)
            /\ RLt(HeightSlope(i, b), RAdd(strategy.erosion_threshold, Frac(1, 5)))
            /\ \E k \in PlacesOf(FlowDeltasOf(i), b.index) :
                   RGt(FlowDeltasOf(i)[k].height_delta, R(0))

-----------------------------------------------------------------------------
(* Precipitation *)

\* no delta of the step under way or just ended moved anything between cells
\* and no sink correction applied: every delta a cell computed targets the
\* cell itself, and its sink delta is zero
NoTransfer ==
    \A i \in DOMAIN computed :
        /\ computed[i] # <<>>
        /\ \A k \in 1..Len(computed[i]) : computed[i][k].cell_index = i
        /\ SinkDeltaOf(i).height_delta = R(0)
        /\ SinkDeltaOf(i).depth_delta = R(0)
        /\ \A k \in 1..Len(FlowDeltasOf(i)) : FlowDeltasOf(i)[k].height_delta = R(0)

\* C15: with precipitation_rate = 1 every computed cell has one self delta
\* and its depth_delta is precipitation_amount more than what the flow pass
\* took from the cell, whatever the draw; after a step in which nothing was
\* transferred and no sink correction applied, every cell's depth has grown
\* by precipitation_amount times time_delta and its height is unchanged.
C15_FullPrecipitation ==
    strategy.precipitation_rate = R(1) =>
        /\ \A i \in DOMAIN computed : Computed(i) =>
               /\ Cardinality(PlacesOf(FlowDeltasOf(i), i)) = 1
               /\ \A k \in PlacesOf(FlowDeltasOf(i), i) :
                      RAdd(FlowDeltasOf(i)[k].depth_delta,
                           SumDepthToOthers(FlowDeltasOf(i), i))
                          = strategy.precipitation_amount
        /\ AfterStep /\ NoTransfer =>
               \A i \in DOMAIN terrain :
                   /\ terrain[i].depth =
                          RAdd(snapshot[i].depth,
                               RMul(strategy.precipitation_amount, time_delta))
                   /\ terrain[i].height = snapshot[i].height

\* the second step in a row that only rained: every cell has the depth of
\* two precipitations
C15_Witness ==
    /\ strategy.precipitation_rate = R(1)
    /\ AfterStep /\ steps = 2 /\ NoTransfer
    /\ \A i \in DOMAIN terrain :
          /\ RGt(snapshot[i].depth, R(0))
          /\ terrain[i].depth = RAdd(snapshot[i].depth,
                                     RMul(strategy.precipitation_amount, time_delta))
          /\ RGt(terrain[i].depth, snapshot[i].depth)

-----------------------------------------------------------------------------
(* The bound of the outflow *)

\* height + depth of cell i
Surface(i) == RAdd(terrain[i].height, terrain[i].depth)

\* the neighbors of cell i that lie downhill of its surface
Downhill(i) ==
    { nd \in NeighborDataOf(i) :
          RGt(RDiv(RSub(Surface(i), Surface(nd.index)), Root(nd.distance)), R(0)) }

\* the cap of what cell i may send because of the neighbor nd names:
\* available of calc_flow_weight
FlowCap(i, nd) ==
    RMin(terrain[i].depth, RDiv(RSub(Surface(i), Surface(nd.index)), R(2)))

\* the least FlowCap over a set of neighbor_data of cell i
RECURSIVE MinFlowCap(_, _)
MinFlowCap(i, nds) ==
    IF nds = {} THEN F64_MAX
    ELSE LET nd == CHOOSE nd \in nds : TRUE
         IN  RMin(MinFlowCap(i, nds \ {nd}), FlowCap(i, nd))

\* the depth the deltas of cell i send to its neighbors
SentDepth(i) == SumDepthToOthers(FlowDeltasOf(i), i)

\* C16: for a cell with depth >= 0 and flow_rate in [0, 1], the depth its
\* deltas send to its neighbors is flow_rate times the least available of
\* the downhill neighbors, so it is at most the depth of the cell and at
\* most half the surface differential to every downhill neighbor; a cell
\* with no downhill neighbor sends nothing.
C16_OutflowBound ==
    \A i \in DOMAIN computed :
        /\ Computed(i)
        /\ ~RLt(terrain[i].depth, R(0))
        /\ ~RLt(strategy.flow_rate, R(0)) /\ ~RGt(strategy.flow_rate, R(1))
        => /\ ~RGt(SentDepth(i), terrain[i].depth)
           /\ \A nd \in Downhill(i) :
                  ~RGt(SentDepth(i),
                       RDiv(RSub(Surface(i), Surface(nd.index)), R(2)))
           /\ Downhill(i) # {} =>
                  SentDepth(i) = RMul(MinFlowCap(i, Downhill(i)), strategy.flow_rate)
           /\ Downhill(i) = {} =>
                  /\ SentDepth(i) = R(0)
                  /\ \A k \in 1..Len(FlowDeltasOf(i)) :
                         FlowDeltasOf(i)[k].cell_index # i
                             => FlowDeltasOf(i)[k].depth_delta = R(0)

\* a cell with water and two downhill neighbors that sends as much as the
\* tighter of its caps allows, and a cell with water and no downhill neighbor
C16_Witness ==
    /\ \E i \in DOMAIN computed :
          /\ Computed(i)
          /\ RGt(terrain[i].depth, R(0))
          /\ Cardinality(Downhill(i)) = 2
          /\ RGt(SentDepth(i), R(0))
          /\ \E nd \in Downhill(i) :
                 SentDepth(i) = RDiv(RSub(Surface(i), Surface(nd.index)), R(2))
          /\ \E nd \in Downhill(i) :
                 RLt(SentDepth(i), RDiv(RSub(Surface(i), Surface(nd.index)), R(2)))
    /\ \E i \in DOMAIN computed :
          /\ Computed(i)
          /\ RGt(terrain[i].depth, R(0))
          /\ Downhill(i) = {}

-----------------------------------------------------------------------------
(* The cell indices of the deltas *)

\* C17: in every step, each delta computed for cell i targets i or an index
\* of i's neighbor list; calc_flow_deltas returns at most one delta for i
\* and at most one per neighbor index, and one sink delta for i follows;
\* every neighbor index and every cell_index of the returned deltas is below
\* cells_len, and the number of cells does not change, so apply_deltas
\* indexes within bounds.
C17_IndicesInRange ==
    /\ DOMAIN terrain = 0..(CellsLen(terrain) - 1)
    /\ DOMAIN terrain = DOMAIN snapshot
    /\ \A i \in DOMAIN terrain : NeighborIndices(terrain[i]) \subseteq DOMAIN terrain
    /\ \A k \in 1..Len(collected) :
           collected[k].cell_index \in 0..(CellsLen(terrain) - 1)
    /\ \A i \in DOMAIN computed : computed[i] # <<>> =>
           /\ \A k \in 1..Len(computed[i]) :
                  computed[i][k].cell_index \in {i} \cup NeighborIndices(terrain[i])
           /\ \A j \in DOMAIN terrain :
                  Cardinality(PlacesOf(FlowDeltasOf(i), j)) <= 1
           /\ SinkDeltaOf(i).cell_index = i
           /\ Cardinality(PlacesOf(computed[i], i)) \in {1, 2}
           /\ Len(computed[i]) <= Cardinality(NeighborIndices(terrain[i])) + 2

\* in a second step, a cell with a delta for itself, one for each of its two
\* neighbors and its sink delta, and after it the step ended
C17_Witness ==
    /\ AfterStep /\ steps = 2
    /\ \E i \in DOMAIN computed :
          /\ Len(computed[i]) = 4
          /\ \A n \in NeighborIndices(terrain[i]) :
                 Cardinality(PlacesOf(computed[i], n)) = 1
          /\ \E n \in NeighborIndices(terrain[i]) : \E k \in PlacesOf(computed[i], n) :
                 /\ RGt(computed[i][k].height_delta, R(0))
                 /\ RGt(computed[i][k].depth_delta, R(0))

=============================================================================
